---- MODULE Spec2Model ----
(***************************************************************************)
(* Model of cms/db/__init__.py: the aggregate queries attached to Contest  *)
(* and Dataset, run against a relational database that the application's   *)
(* write path populates and whose engine is created with the backend's     *)
(* default isolation level.                                                *)
(***************************************************************************)
EXTENDS Integers, Sequences, FiniteSets, TLC

VARIABLES
    db,        \* the committed state of the database
    snapshot,  \* the database as it was when the open session first read it
    last,      \* the most recent call of the open session and what it returned
    fetched,   \* an earlier list the caller of the open session still holds
    switched   \* the active-dataset switch committed since `fetched` was taken

vars == <<db, snapshot, last, fetched, switched>>

(***************************************************************************)
(* Bounds of the model.                                                    *)
(***************************************************************************)
NContests == 2
\* Rows the write path may commit, per specification.
MaxRows == 5
MaxResultRows == 6
MaxLoadRows == 6
MaxSessionRows == 6

NULL == 0
None == [op |-> "none"]

ContestIds == 1..NContests
\* A contest reference whose id matches no row of the contests table.
UnknownContest == NContests + 1
ContestRefs == ContestIds \cup {UnknownContest}

(***************************************************************************)
(* The tables.  Rows of a table with a serial primary key are the elements *)
(* of a sequence (the id is the index); tables with a composite primary    *)
(* key are sets of key records.                                            *)
(***************************************************************************)
EmptyDb ==
    [ tasks             |-> << >>,
      datasets          |-> << >>,
      submissions       |-> << >>,
      tokens            |-> {},
      results           |-> {},
      executables       |-> << >>,
      evaluations       |-> << >>,
      user_tests        |-> << >>,
      user_test_results |-> {},
      participations    |-> << >>,
      print_jobs        |-> << >> ]

Ids(table) == 1..Len(table)

Rows(d) ==
    Len(d.tasks) + Len(d.datasets) + Len(d.submissions) + Cardinality(d.tokens)
    + Cardinality(d.results) + Len(d.executables) + Len(d.evaluations)
    + Len(d.user_tests) + Cardinality(d.user_test_results)
    + Len(d.participations) + Len(d.print_jobs)

Init ==
    /\ db = EmptyDb
    /\ snapshot = None
    /\ last = None
    /\ fetched = None
    /\ switched = None

(***************************************************************************)
(* SQL and ORM helpers.                                                    *)
(***************************************************************************)
\* SQL equality: a comparison with NULL is never true.
SqlEq(a, b) == a # NULL /\ b # NULL /\ a = b

IdSeq(n) == [i \in 1..n |-> i]

Range(s) == {s[i] : i \in DOMAIN s}

RECURSIVE Flatten(_)
Flatten(ss) == IF ss = << >> THEN << >> ELSE Head(ss) \o Flatten(Tail(ss))

\* roots LEFT OUTER JOIN related, related[i] being the related rows of
\* roots[i]: one row per related row, and one row with a NULL related side
\* (the empty set) for a root that has none.
LeftOuterJoin(roots, related) ==
    Flatten([i \in DOMAIN roots |->
        IF related[i] = << >>
        THEN << [root |-> roots[i], rel |-> {}] >>
        ELSE [j \in DOMAIN related[i] |->
                 [root |-> roots[i], rel |-> {related[i][j]}]]])

\* Query.all() on a query that joined-eager-loads a collection: the root
\* entities of the rows, each kept once, in order of first appearance.
RECURSIVE UniqueRoots(_)
UniqueRoots(rows) ==
    IF rows = << >> THEN << >>
    ELSE LET rest == UniqueRoots(SubSeq(rows, 1, Len(rows) - 1))
             r    == rows[Len(rows)].root
         IN  IF r \in Range(rest) THEN rest ELSE Append(rest, r)

\* The collection a joined eager load populates on a root from its rows.
Collection(rows, r) ==
    UNION {rows[i].rel : i \in {j \in DOMAIN rows : rows[j].root = r}}

\* The second statement of a subquery eager load: the related rows of every
\* root of the primary query, attached to the roots by key.
Batch(table, keys) == [k \in keys |-> {i \in Ids(table) : table[i] = k}]

SubmissionResultKey(s, k) == [submission_id |-> s, dataset_id |-> k]
UserTestResultKey(u, k) == [user_test_id |-> u, dataset_id |-> k]

\* Rows of submission_results / user_test_results of one parent, by dataset id.
ResultsOf(d, s) ==
    LET ks == SelectSeq(IdSeq(Len(d.datasets)), LAMBDA k : SubmissionResultKey(s, k) \in d.results)
    IN  [i \in DOMAIN ks |-> SubmissionResultKey(s, ks[i])]

UserTestResultsOf(d, u) ==
    LET ks == SelectSeq(IdSeq(Len(d.datasets)), LAMBDA k : UserTestResultKey(u, k) \in d.user_test_results)
    IN  [i \in DOMAIN ks |-> UserTestResultKey(u, ks[i])]

\* The tables submission_results and user_test_results in primary key order.
AllSubmissionResults(d) == Flatten([s \in Ids(d.submissions) |-> ResultsOf(d, s)])
AllUserTestResults(d) == Flatten([u \in Ids(d.user_tests) |-> UserTestResultsOf(d, u)])

\* What a call hands back: the list, and how it was loaded (rows of the
\* primary statement, relationships loaded by a join in it, relationships
\* loaded by a later batched statement), the error raised, and the database
\* the call leaves behind.
Answer(d, ret, rows, joined, batched) ==
    [ret |-> ret, rows |-> rows, joined |-> joined, batched |-> batched,
     error |-> "none", db |-> d]

(***************************************************************************)
(* The methods of Contest.                                                 *)
(***************************************************************************)
\* As get_submissions_for_contest, were the rows of the joined load handed back
\* one entity per row.
get_submissions_for_contest_PerRow(d, self) ==
    LET roots   == SelectSeq(IdSeq(Len(d.submissions)),
                       LAMBDA s : SqlEq(d.tasks[d.submissions[s].task_id].contest_id, self))
        primary == LeftOuterJoin(roots, [i \in DOMAIN roots |-> ResultsOf(d, roots[i])])
    IN  Answer(d,
               [i \in DOMAIN primary |->
                   [id      |-> primary[i].root,
                    token   |-> IF primary[i].root \in d.tokens THEN primary[i].root ELSE NULL,
                    results |-> Collection(primary, primary[i].root)]],
               Len(primary), {"Submission.token", "Submission.results"}, {})

\* As get_submissions_for_contest, without the filter on the contest.
get_submissions_for_contest_AnyContest(d, self) ==
    LET roots   == IdSeq(Len(d.submissions))
        primary == LeftOuterJoin(roots, [i \in DOMAIN roots |-> ResultsOf(d, roots[i])])
        uniq    == UniqueRoots(primary)
    IN  Answer(d,
               [i \in DOMAIN uniq |->
                   [id      |-> uniq[i],
                    token   |-> IF uniq[i] \in d.tokens THEN uniq[i] ELSE NULL,
                    results |-> Collection(primary, uniq[i])]],
               Len(primary), {"Submission.token", "Submission.results"}, {})

\* As get_submissions_for_contest, ended by .one() in place of .all(): no row is
\* an error.
get_submissions_for_contest_One(d, self) ==
    LET roots   == SelectSeq(IdSeq(Len(d.submissions)),
                       LAMBDA s : SqlEq(d.tasks[d.submissions[s].task_id].contest_id, self))
        primary == LeftOuterJoin(roots, [i \in DOMAIN roots |-> ResultsOf(d, roots[i])])
        uniq    == UniqueRoots(primary)
    IN  [Answer(d,
                [i \in DOMAIN uniq |->
                    [id      |-> uniq[i],
                     token   |-> IF uniq[i] \in d.tokens THEN uniq[i] ELSE NULL,
                     results |-> Collection(primary, uniq[i])]],
                Len(primary), {"Submission.token", "Submission.results"}, {})
         EXCEPT !.error = IF uniq = << >> THEN "NoResultFound" ELSE "none"]

get_submissions_for_contest(d, self) ==
    LET roots   == SelectSeq(IdSeq(Len(d.submissions)),
                       LAMBDA s : SqlEq(d.tasks[d.submissions[s].task_id].contest_id, self))
        primary == LeftOuterJoin(roots, [i \in DOMAIN roots |-> ResultsOf(d, roots[i])])
        uniq    == UniqueRoots(primary)
    IN  Answer(d,
               [i \in DOMAIN uniq |->
                   [id      |-> uniq[i],
                    token   |-> IF uniq[i] \in d.tokens THEN uniq[i] ELSE NULL,
                    results |-> Collection(primary, uniq[i])]],
               Len(primary), {"Submission.token", "Submission.results"}, {})

\* As get_submission_results_for_contest, without the filter on the task's
\* active dataset.
get_submission_results_for_contest_AllResults(d, self) ==
    LET rows == SelectSeq(AllSubmissionResults(d),
                    LAMBDA r :
                        SqlEq(d.tasks[d.submissions[r.submission_id].task_id].contest_id, self))
    IN  Answer(d, rows, Len(rows), {}, {})

\* As get_submission_results_for_contest, matching any dataset of the task in
\* place of the active one.
get_submission_results_for_contest_TaskDataset(d, self) ==
    LET rows == SelectSeq(AllSubmissionResults(d),
                    LAMBDA r :
                        /\ SqlEq(d.tasks[d.submissions[r.submission_id].task_id].contest_id, self)
                        /\ SqlEq(d.datasets[r.dataset_id].task_id,
                                 d.submissions[r.submission_id].task_id))
    IN  Answer(d, rows, Len(rows), {}, {})

get_submission_results_for_contest(d, self) ==
    LET rows == SelectSeq(AllSubmissionResults(d),
                    LAMBDA r :
                        /\ SqlEq(d.tasks[d.submissions[r.submission_id].task_id].contest_id, self)
                        /\ SqlEq(d.tasks[d.submissions[r.submission_id].task_id].active_dataset_id,
                                 r.dataset_id))
    IN  Answer(d, rows, Len(rows), {}, {})

get_user_tests_for_contest(d, self) ==
    LET roots   == SelectSeq(IdSeq(Len(d.user_tests)),
                       LAMBDA u : SqlEq(d.tasks[d.user_tests[u].task_id].contest_id, self))
        primary == LeftOuterJoin(roots, [i \in DOMAIN roots |-> UserTestResultsOf(d, roots[i])])
        uniq    == UniqueRoots(primary)
    IN  Answer(d,
               [i \in DOMAIN uniq |->
                   [id      |-> uniq[i],
                    results |-> Collection(primary, uniq[i])]],
               Len(primary), {"UserTest.results"}, {})

get_user_test_results_for_contest(d, self) ==
    LET rows == SelectSeq(AllUserTestResults(d),
                    LAMBDA r :
                        /\ SqlEq(d.tasks[d.user_tests[r.user_test_id].task_id].contest_id, self)
                        /\ SqlEq(d.tasks[d.user_tests[r.user_test_id].task_id].active_dataset_id,
                                 r.dataset_id))
    IN  Answer(d, rows, Len(rows), {}, {})

\* As get_print_jobs_for_contest, ended by .delete() in place of .all().
get_print_jobs_for_contest_Delete(d, self) ==
    LET rows == SelectSeq(IdSeq(Len(d.print_jobs)),
                    LAMBDA p : SqlEq(d.participations[d.print_jobs[p].participation_id].contest_id,
                                     self))
    IN  Answer([d EXCEPT !.print_jobs = SelectSeq(@, LAMBDA j :
                    ~SqlEq(d.participations[j.participation_id].contest_id, self))],
               rows, Len(rows), {}, {})

get_print_jobs_for_contest(d, self) ==
    LET rows == SelectSeq(IdSeq(Len(d.print_jobs)),
                    LAMBDA p : SqlEq(d.participations[d.print_jobs[p].participation_id].contest_id,
                                     self))
    IN  Answer(d, rows, Len(rows), {}, {})

(***************************************************************************)
(* The method of Dataset.  The receiver `self` only lends its session.     *)
(***************************************************************************)
\* As get_submission_results_for_dataset, filtering on the receiver.
get_submission_results_for_dataset_Self(d, self, dataset) ==
    LET rows == SelectSeq(AllSubmissionResults(d), LAMBDA r : SqlEq(r.dataset_id, self))
        exes == Batch(d.executables, Range(rows))
        evas == Batch(d.evaluations, Range(rows))
    IN  Answer(d,
               [i \in DOMAIN rows |->
                   [submission_id |-> rows[i].submission_id,
                    dataset_id    |-> rows[i].dataset_id,
                    submission    |-> rows[i].submission_id,
                    executables   |-> exes[rows[i]],
                    evaluations   |-> evas[rows[i]]]],
               Len(rows), {"SubmissionResult.submission"},
               {"SubmissionResult.executables", "SubmissionResult.evaluations"})

\* As get_submission_results_for_dataset, with joinedload for the executables.
get_submission_results_for_dataset_JoinedExecutables(d, self, dataset) ==
    LET rows    == SelectSeq(AllSubmissionResults(d), LAMBDA r : SqlEq(r.dataset_id, dataset))
        primary == LeftOuterJoin(rows, [i \in DOMAIN rows |->
                       SelectSeq(IdSeq(Len(d.executables)), LAMBDA e : d.executables[e] = rows[i])])
        uniq    == UniqueRoots(primary)
        evas    == Batch(d.evaluations, Range(rows))
    IN  Answer(d,
               [i \in DOMAIN uniq |->
                   [submission_id |-> uniq[i].submission_id,
                    dataset_id    |-> uniq[i].dataset_id,
                    submission    |-> uniq[i].submission_id,
                    executables   |-> Collection(primary, uniq[i]),
                    evaluations   |-> evas[uniq[i]]]],
               Len(primary),
               {"SubmissionResult.submission", "SubmissionResult.executables"},
               {"SubmissionResult.evaluations"})

get_submission_results_for_dataset(d, self, dataset) ==
    LET rows == SelectSeq(AllSubmissionResults(d), LAMBDA r : SqlEq(r.dataset_id, dataset))
        exes == Batch(d.executables, Range(rows))
        evas == Batch(d.evaluations, Range(rows))
    IN  Answer(d,
               [i \in DOMAIN rows |->
                   [submission_id |-> rows[i].submission_id,
                    dataset_id    |-> rows[i].dataset_id,
                    submission    |-> rows[i].submission_id,
                    executables   |-> exes[rows[i]],
                    evaluations   |-> evas[rows[i]]]],
               Len(rows), {"SubmissionResult.submission"},
               {"SubmissionResult.executables", "SubmissionResult.evaluations"})

(***************************************************************************)
(* The engine is created without an isolation level, so the sessions run   *)
(* at the backend's default, READ COMMITTED: every statement reads the     *)
(* state committed when it is issued, whatever the session read before.    *)
(***************************************************************************)
\* As Visible, were the engine created with isolation_level="REPEATABLE READ":
\* every statement of a session reads the state its first statement read.
Visible_RepeatableRead(d, snap) == IF snap = None THEN d ELSE snap

Visible(d, snap) == d

(***************************************************************************)
(* The write path of the application (outside cms/db/__init__.py): it      *)
(* commits rows that respect the schema's keys, while no session of the    *)
(* model is open, up to a budget of b rows.                                *)
(***************************************************************************)
SessionClosed == snapshot = None /\ last = None /\ fetched = None

CanWrite(b) == SessionClosed /\ Rows(db) < b

Commit(d) == db' = d /\ UNCHANGED <<snapshot, last, fetched, switched>>

AddTask(b) ==
    /\ CanWrite(b)
    /\ \E c \in ContestIds :
         Commit([db EXCEPT !.tasks = Append(@, [contest_id |-> c, active_dataset_id |-> NULL])])

AddDataset(b) ==
    /\ CanWrite(b)
    /\ \E t \in Ids(db.tasks) :
         Commit([db EXCEPT !.datasets = Append(@, [task_id |-> t])])

AddSubmission(b) ==
    /\ CanWrite(b)
    /\ \E t \in Ids(db.tasks) :
         Commit([db EXCEPT !.submissions = Append(@, [task_id |-> t])])

AddToken(b) ==
    /\ CanWrite(b)
    /\ \E s \in Ids(db.submissions) \ db.tokens :
         Commit([db EXCEPT !.tokens = @ \cup {s}])

AddResult(b) ==
    /\ CanWrite(b)
    /\ \E s \in Ids(db.submissions), k \in Ids(db.datasets) :
         /\ SubmissionResultKey(s, k) \notin db.results
         /\ Commit([db EXCEPT !.results = @ \cup {SubmissionResultKey(s, k)}])

AddExecutable(b) ==
    /\ CanWrite(b)
    /\ \E r \in db.results :
         Commit([db EXCEPT !.executables = Append(@, r)])

AddEvaluation(b) ==
    /\ CanWrite(b)
    /\ \E r \in db.results :
         Commit([db EXCEPT !.evaluations = Append(@, r)])

AddUserTest(b) ==
    /\ CanWrite(b)
    /\ \E t \in Ids(db.tasks) :
         Commit([db EXCEPT !.user_tests = Append(@, [task_id |-> t])])

AddUserTestResult(b) ==
    /\ CanWrite(b)
    /\ \E u \in Ids(db.user_tests), k \in Ids(db.datasets) :
         /\ UserTestResultKey(u, k) \notin db.user_test_results
         /\ Commit([db EXCEPT !.user_test_results = @ \cup {UserTestResultKey(u, k)}])

AddParticipation(b) ==
    /\ CanWrite(b)
    /\ \E c \in ContestIds :
         Commit([db EXCEPT !.participations = Append(@, [contest_id |-> c])])

AddPrintJob(b) ==
    /\ CanWrite(b)
    /\ \E p \in Ids(db.participations) :
         Commit([db EXCEPT !.print_jobs = Append(@, [participation_id |-> p])])

\* The active dataset of a task is one of the task's own datasets.
SetActive ==
    /\ SessionClosed
    /\ \E t \in Ids(db.tasks), k \in Ids(db.datasets) :
         /\ db.datasets[k].task_id = t
         /\ db.tasks[t].active_dataset_id # k
         /\ Commit([db EXCEPT !.tasks[t].active_dataset_id = k])

\* Another session commits a switch of a task's active dataset between two
\* queries of the open session, whose caller holds the first list.
SwitchActive ==
    /\ fetched # None /\ last = None /\ switched = None
    /\ \E t \in Ids(db.tasks), k \in Ids(db.datasets) :
         /\ db.datasets[k].task_id = t
         /\ db.tasks[t].active_dataset_id # NULL
         /\ db.tasks[t].active_dataset_id # k
         /\ db' = [db EXCEPT !.tasks[t].active_dataset_id = k]
         /\ switched' = [task |-> t, from |-> db.tasks[t].active_dataset_id, to |-> k]
    /\ UNCHANGED <<snapshot, last, fetched>>

(***************************************************************************)
(* The calls of a session.                                                 *)
(***************************************************************************)
Call(op, self, arg, answer) ==
    /\ last = None
    /\ last' = [op |-> op, self |-> self, arg |-> arg, ret |-> answer.ret,
                rows |-> answer.rows, joined |-> answer.joined,
                batched |-> answer.batched, error |-> answer.error]
    /\ db' = answer.db
    /\ snapshot' = IF snapshot = None THEN db ELSE snapshot
    /\ UNCHANGED <<fetched, switched>>

DatasetRefs == Ids(db.datasets) \cup {Len(db.datasets) + 1, NULL}

GetSubmissions ==
    \E c \in ContestRefs :
        Call("Contest.get_submissions", c, NULL,
             get_submissions_for_contest(Visible(db, snapshot), c))

GetSubmissionResults ==
    /\ fetched = None
    /\ \E c \in ContestRefs :
         Call("Contest.get_submission_results", c, NULL,
              get_submission_results_for_contest(Visible(db, snapshot), c))

\* The caller, holding the list of an earlier Contest.get_submission_results,
\* issues the query again on the same contest.
GetSubmissionResultsAgain ==
    /\ fetched # None
    /\ Call("Contest.get_submission_results", fetched.self, NULL,
            get_submission_results_for_contest(Visible(db, snapshot), fetched.self))

GetUserTests ==
    \E c \in ContestRefs :
        Call("Contest.get_user_tests", c, NULL,
             get_user_tests_for_contest(Visible(db, snapshot), c))

GetUserTestResults ==
    \E c \in ContestRefs :
        Call("Contest.get_user_test_results", c, NULL,
             get_user_test_results_for_contest(Visible(db, snapshot), c))

GetPrintJobs ==
    \E c \in ContestRefs :
        Call("Contest.get_print_jobs", c, NULL,
             get_print_jobs_for_contest(Visible(db, snapshot), c))

DatasetGetSubmissionResults ==
    \E self \in Ids(db.datasets), dataset \in DatasetRefs :
        Call("Dataset.get_submission_results", self, dataset,
             get_submission_results_for_dataset(Visible(db, snapshot), self, dataset))

\* The caller keeps the list it was just handed and goes on.
Hold ==
    /\ last # None
    /\ last.op = "Contest.get_submission_results"
    /\ fetched' = last
    /\ last' = None
    /\ switched' = None
    /\ UNCHANGED <<db, snapshot>>

\* The caller drops the list it was handed; the session stays open.
Release ==
    /\ last # None
    /\ last' = None
    /\ UNCHANGED <<db, snapshot, fetched, switched>>

\* The session is closed and the caller drops what it fetched.
Discard ==
    /\ snapshot # None
    /\ snapshot' = None /\ last' = None /\ fetched' = None /\ switched' = None
    /\ UNCHANGED db

(***************************************************************************)
(* Specifications.  Spec is the whole layer: every table and all six       *)
(* calls.  The others keep some of the calls and restrict the write path   *)
(* to the tables that decide what those return, which leaves room for more *)
(* rows in them.  While a session is open the write path is silent, but    *)
(* for the switch of an active dataset in SpecSession.                     *)
(***************************************************************************)
Next ==
    \/ AddTask(MaxRows)
    \/ AddDataset(MaxRows)
    \/ AddSubmission(MaxRows)
    \/ AddToken(MaxRows)
    \/ AddResult(MaxRows)
    \/ AddExecutable(MaxRows)
    \/ AddEvaluation(MaxRows)
    \/ AddUserTest(MaxRows)
    \/ AddUserTestResult(MaxRows)
    \/ AddParticipation(MaxRows)
    \/ AddPrintJob(MaxRows)
    \/ SetActive
    \/ GetSubmissions
    \/ GetSubmissionResults
    \/ GetUserTests
    \/ GetUserTestResults
    \/ GetPrintJobs
    \/ DatasetGetSubmissionResults
    \/ Release
    \/ Discard

Spec == Init /\ [][Next]_vars

NextResults ==
    \/ AddTask(MaxResultRows)
    \/ AddDataset(MaxResultRows)
    \/ AddSubmission(MaxResultRows)
    \/ AddResult(MaxResultRows)
    \/ SetActive
    \/ GetSubmissions
    \/ GetSubmissionResults
    \/ Release
    \/ Discard

SpecResults == Init /\ [][NextResults]_vars

NextLoad ==
    \/ AddTask(MaxLoadRows)
    \/ AddDataset(MaxLoadRows)
    \/ AddSubmission(MaxLoadRows)
    \/ AddToken(MaxLoadRows)
    \/ AddResult(MaxLoadRows)
    \/ AddExecutable(MaxLoadRows)
    \/ AddEvaluation(MaxLoadRows)
    \/ AddUserTest(MaxLoadRows)
    \/ AddUserTestResult(MaxLoadRows)
    \/ GetSubmissions
    \/ GetUserTests
    \/ DatasetGetSubmissionResults
    \/ Release
    \/ Discard

SpecLoad == Init /\ [][NextLoad]_vars

NextSession ==
    \/ AddTask(MaxSessionRows)
    \/ AddDataset(MaxSessionRows)
    \/ AddSubmission(MaxSessionRows)
    \/ AddResult(MaxSessionRows)
    \/ SetActive
    \/ GetSubmissionResults
    \/ Hold
    \/ SwitchActive
    \/ GetSubmissionResultsAgain
    \/ Discard

SpecSession == Init /\ [][NextSession]_vars

(***************************************************************************)
(* What the schema says of the rows in the database, for the properties.   *)
(***************************************************************************)
GSR == "Contest.get_submission_results"

TaskOf(s) == db.submissions[s].task_id
ContestOf(s) == db.tasks[TaskOf(s)].contest_id
ActiveOf(s) == db.tasks[TaskOf(s)].active_dataset_id

SubmissionsIn(c) == {s \in Ids(db.submissions) : ContestOf(s) = c}
UserTestsIn(c) == {u \in Ids(db.user_tests) : db.tasks[db.user_tests[u].task_id].contest_id = c}
ActiveResultsIn(c) ==
    {r \in db.results : ContestOf(r.submission_id) = c /\ r.dataset_id = ActiveOf(r.submission_id)}
ResultsAgainst(k) == {r \in db.results : r.dataset_id = k}

NoDuplicates(seq) == \A i, j \in DOMAIN seq : i # j => seq[i] # seq[j]

\* The positions of list `ret` that hold submission s / the entity with id x /
\* the result with key r.
OfSubmission(ret, s) == {i \in DOMAIN ret : ret[i].submission_id = s}
WithId(ret, x) == {i \in DOMAIN ret : ret[i].id = x}
RowKey(e) == SubmissionResultKey(e.submission_id, e.dataset_id)
WithKey(ret, r) == {i \in DOMAIN ret : RowKey(ret[i]) = r}

RECURSIVE Sum(_)
Sum(seq) == IF seq = << >> THEN 0 ELSE Head(seq) + Sum(Tail(seq))

\* Rows of a primary statement that joins a collection: one per related row,
\* one for a root without any.
JoinedRows(ret) ==
    Sum([i \in DOMAIN ret |->
            IF ret[i].results = {} THEN 1 ELSE Cardinality(ret[i].results)])

(***************************************************************************)
(* C1: Contest.get_submission_results returns exactly the results r with   *)
(* r.submission.task.contest = C and r.dataset_id = the task's active      *)
(* dataset id, each once: none keyed to a non-active dataset, none of      *)
(* another contest's task, none missing.                                   *)
(***************************************************************************)
C1_ActiveResultsOfContest ==
    last.op = GSR =>
        /\ NoDuplicates(last.ret)
        /\ Range(last.ret) = ActiveResultsIn(last.self)

\* The scenario of the specification: a submission with results against the
\* inactive and the active dataset of its task; only the latter is returned.
C1_Witness ==
    /\ last.op = GSR
    /\ \E s \in Ids(db.submissions), k1, k2 \in Ids(db.datasets) :
         /\ k1 # k2
         /\ db.datasets[k1].task_id = TaskOf(s)
         /\ db.datasets[k2].task_id = TaskOf(s)
         /\ {SubmissionResultKey(s, k1), SubmissionResultKey(s, k2)} \subseteq db.results
         /\ ActiveOf(s) = k2
         /\ ContestOf(s) = last.self
         /\ last.ret = << SubmissionResultKey(s, k2) >>

(***************************************************************************)
(* C2: results being unique per (submission, dataset), the list returned   *)
(* by Contest.get_submission_results holds at most one result per          *)
(* submission on a task, keyed to the task's active dataset, and none for  *)
(* a submission without a result against it (a null active dataset         *)
(* included).                                                              *)
(***************************************************************************)
C2_AtMostOnePerSubmission ==
    last.op = GSR =>
        \A s \in Ids(db.submissions) :
            LET mine == OfSubmission(last.ret, s)
            IN  /\ Cardinality(mine) <= 1
                /\ \A i \in mine : last.ret[i].dataset_id = ActiveOf(s)
                /\ SubmissionResultKey(s, ActiveOf(s)) \notin db.results => mine = {}

\* A submission of the contest with a result against a non-active dataset
\* only: it contributes nothing.
C2_Witness ==
    /\ last.op = GSR
    /\ \E s \in SubmissionsIn(last.self), k \in Ids(db.datasets) :
         /\ SubmissionResultKey(s, k) \in db.results
         /\ ActiveOf(s) # NULL
         /\ SubmissionResultKey(s, ActiveOf(s)) \notin db.results
         /\ OfSubmission(last.ret, s) = {}

(***************************************************************************)
(* C3: Contest.get_submissions returns exactly the submissions whose       *)
(* task's contest is C, and every result Contest.get_submission_results    *)
(* returns on C references one of them.                                    *)
(***************************************************************************)
C3_SubmissionsOfContest ==
    /\ last.op = "Contest.get_submissions" =>
           {last.ret[i].id : i \in DOMAIN last.ret} = SubmissionsIn(last.self)
    /\ last.op = GSR =>
           \A i \in DOMAIN last.ret : last.ret[i].submission_id \in SubmissionsIn(last.self)

\* Submissions in two contests, one of them with a result against its
\* task's active dataset: the call returns that one and not the other.
C3_Witness ==
    /\ last.op = "Contest.get_submissions"
    /\ last.ret # << >>
    /\ \E s \in Ids(db.submissions) : ContestOf(s) # last.self
    /\ \E i \in DOMAIN last.ret :
         SubmissionResultKey(last.ret[i].id, ActiveOf(last.ret[i].id)) \in db.results

(***************************************************************************)
(* C4, as claimed: in every aggregate operation no pre-loaded to-many      *)
(* relationship is joined into the primary query, each is loaded by a      *)
(* second batched query, and each pre-loaded to-one relationship is        *)
(* loaded by a join.                                                       *)
(***************************************************************************)
C4_ToManyNeverJoined ==
    last.op # "none" =>
        /\ last.joined \cap {"Submission.results", "UserTest.results",
                             "SubmissionResult.executables",
                             "SubmissionResult.evaluations"} = {}
        /\ last.op = "Contest.get_submissions" =>
               /\ "Submission.results" \in last.batched
               /\ "Submission.token" \in last.joined
        /\ last.op = "Contest.get_user_tests" => "UserTest.results" \in last.batched
        /\ last.op = "Dataset.get_submission_results" =>
               /\ {"SubmissionResult.executables", "SubmissionResult.evaluations"}
                      \subseteq last.batched
               /\ "SubmissionResult.submission" \in last.joined
        /\ last.rows = Len(last.ret)

(***************************************************************************)
(* C4, amended: Submission.results and UserTest.results are loaded by a    *)
(* join in the primary query, whose rows repeat a root once per related    *)
(* row; SubmissionResult.executables and SubmissionResult.evaluations are  *)
(* each loaded by a second query batched over the roots; the to-one        *)
(* relationships are loaded by a join.                                     *)
(***************************************************************************)
C4_StrategyPerEdge ==
    /\ last.op = "Contest.get_submissions" =>
           /\ last.joined = {"Submission.token", "Submission.results"}
           /\ last.batched = {}
           /\ last.rows = JoinedRows(last.ret)
    /\ last.op = "Contest.get_user_tests" =>
           /\ last.joined = {"UserTest.results"}
           /\ last.batched = {}
           /\ last.rows = JoinedRows(last.ret)
    /\ last.op = "Dataset.get_submission_results" =>
           /\ last.joined = {"SubmissionResult.submission"}
           /\ last.batched = {"SubmissionResult.executables", "SubmissionResult.evaluations"}
           /\ last.rows = Len(last.ret)

\* A submission with two results: the primary statement of get_submissions
\* has more rows than the list has submissions.
C4_Witness ==
    /\ last.op = "Contest.get_submissions"
    /\ \E i \in DOMAIN last.ret : Cardinality(last.ret[i].results) = 2
    /\ last.rows > Len(last.ret)

(***************************************************************************)
(* C5: in get_submissions_for_contest, get_user_tests_for_contest and      *)
(* get_submission_results_for_dataset every matching root is in the list   *)
(* exactly once, however many related rows it has, and each pre-loaded     *)
(* collection holds exactly the root's related rows (empty when none).     *)
(***************************************************************************)
C5_RootsOnceCollectionsExact ==
    /\ last.op = "Contest.get_submissions" =>
           /\ \A i \in DOMAIN last.ret : last.ret[i].id \in SubmissionsIn(last.self)
           /\ \A s \in SubmissionsIn(last.self) :
                  Cardinality(WithId(last.ret, s)) = 1
           /\ \A i \in DOMAIN last.ret :
                  last.ret[i].results = {r \in db.results : r.submission_id = last.ret[i].id}
    /\ last.op = "Contest.get_user_tests" =>
           /\ \A i \in DOMAIN last.ret : last.ret[i].id \in UserTestsIn(last.self)
           /\ \A u \in UserTestsIn(last.self) :
                  Cardinality(WithId(last.ret, u)) = 1
           /\ \A i \in DOMAIN last.ret :
                  last.ret[i].results =
                      {r \in db.user_test_results : r.user_test_id = last.ret[i].id}
    /\ last.op = "Dataset.get_submission_results" =>
           /\ \A i \in DOMAIN last.ret : RowKey(last.ret[i]) \in ResultsAgainst(last.arg)
           /\ \A r \in ResultsAgainst(last.arg) :
                  Cardinality(WithKey(last.ret, r)) = 1
           /\ \A i \in DOMAIN last.ret :
                  /\ last.ret[i].executables =
                         {e \in Ids(db.executables) : db.executables[e] = RowKey(last.ret[i])}
                  /\ last.ret[i].evaluations =
                         {e \in Ids(db.evaluations) : db.evaluations[e] = RowKey(last.ret[i])}

\* A result with two executables and no evaluation: it is in the list once,
\* with both executables and an empty collection of evaluations.
C5_Witness ==
    /\ last.op = "Dataset.get_submission_results"
    /\ Len(last.ret) = 1
    /\ Cardinality(last.ret[1].executables) = 2
    /\ last.ret[1].evaluations = {}

(***************************************************************************)
(* C6, as claimed: two queries of one session against the same contest     *)
(* observe the same active-dataset pointer for every task, even when       *)
(* another session commits a switch between them.                          *)
(***************************************************************************)
TwoQueries == fetched.op = GSR /\ last.op = GSR /\ fetched.self = last.self

\* The two lists show no task with results keyed to different datasets.
SamePointers(first, second) ==
    \A i \in DOMAIN first, j \in DOMAIN second :
        TaskOf(first[i].submission_id) = TaskOf(second[j].submission_id)
            => first[i].dataset_id = second[j].dataset_id

C6_SamePointerInSession == TwoQueries => SamePointers(fetched.ret, last.ret)

(***************************************************************************)
(* C6, amended: two queries of one session against the same contest        *)
(* observe the same active-dataset pointer for every task when no switch   *)
(* of an active dataset commits between them; when one does, the second    *)
(* query observes the newly committed pointer of the switched task.        *)
(***************************************************************************)
C6_PointerAsCommitted ==
    TwoQueries =>
        /\ switched = None => SamePointers(fetched.ret, last.ret)
        /\ switched # None =>
               \A j \in DOMAIN last.ret :
                   TaskOf(last.ret[j].submission_id) = switched.task
                       => last.ret[j].dataset_id = switched.to

\* A switch committed between the two queries, and the two lists show
\* different datasets for the same task.
C6_Witness ==
    /\ TwoQueries
    /\ switched # None
    /\ \E i \in DOMAIN fetched.ret, j \in DOMAIN last.ret :
         /\ TaskOf(fetched.ret[i].submission_id) = switched.task
         /\ TaskOf(last.ret[j].submission_id) = switched.task
         /\ fetched.ret[i].dataset_id = switched.from
         /\ last.ret[j].dataset_id = switched.to

(***************************************************************************)
(* C7: after a committed switch of a task's active dataset from D2 to D1,  *)
(* the list returned before still holds the task's results keyed to D2,    *)
(* and a fresh Contest.get_submission_results returns the task's results   *)
(* keyed to D1 and none keyed to D2.                                       *)
(***************************************************************************)
KeyedTo(call, t, k) ==
    /\ \A i \in DOMAIN call.ret :
           TaskOf(call.ret[i].submission_id) = t => call.ret[i].dataset_id = k
    /\ db.tasks[t].contest_id = call.self =>
           \A s \in Ids(db.submissions) :
               (TaskOf(s) = t /\ SubmissionResultKey(s, k) \in db.results)
                   => SubmissionResultKey(s, k) \in Range(call.ret)

C7_SwitchSeenByFreshQuery ==
    (fetched.op = GSR /\ switched # None) =>
        /\ KeyedTo(fetched, switched.task, switched.from)
        /\ last.op = GSR => KeyedTo(last, switched.task, switched.to)

\* The list fetched before the switch holds a result keyed to the old active
\* dataset, the fresh one the same submission's result keyed to the new.
C7_Witness ==
    /\ fetched.op = GSR /\ last.op = GSR /\ switched # None
    /\ \E s \in Ids(db.submissions) :
         /\ TaskOf(s) = switched.task
         /\ SubmissionResultKey(s, switched.from) \in Range(fetched.ret)
         /\ SubmissionResultKey(s, switched.to) \in Range(last.ret)
         /\ SubmissionResultKey(s, switched.from) \notin Range(last.ret)

(***************************************************************************)
(* C8: the six calls are read-only: whatever calls a session has made, the *)
(* persisted state is the one the session found.                           *)
(***************************************************************************)
C8_ReadOnly == snapshot # None => db = snapshot

\* A call has returned rows, and the database is as the session found it.
C8_Witness ==
    /\ last.op = "Contest.get_print_jobs"
    /\ last.ret # << >>
    /\ db = snapshot

(***************************************************************************)
(* C9: a contest or dataset reference that matches no rows (unknown, or    *)
(* without tasks, submissions, user tests, print jobs or results) gets an  *)
(* empty sequence and no error from every call.                            *)
(***************************************************************************)
NoRows ==
    \/ /\ last.op \in {"Contest.get_submissions", GSR}
       /\ SubmissionsIn(last.self) = {}
    \/ /\ last.op = GSR
       /\ \A r \in db.results : r.submission_id \notin SubmissionsIn(last.self)
    \/ /\ last.op \in {"Contest.get_user_tests", "Contest.get_user_test_results"}
       /\ UserTestsIn(last.self) = {}
    \/ /\ last.op = "Contest.get_user_test_results"
       /\ \A r \in db.user_test_results : r.user_test_id \notin UserTestsIn(last.self)
    \/ /\ last.op = "Contest.get_print_jobs"
       /\ \A p \in Ids(db.print_jobs) :
              db.participations[db.print_jobs[p].participation_id].contest_id # last.self
    \/ /\ last.op = "Dataset.get_submission_results"
       /\ ResultsAgainst(last.arg) = {}

C9_NoMatchIsEmptyNotError ==
    (last.op # "none" /\ NoRows) => (last.ret = << >> /\ last.error = "none")

\* Submissions exist, and the call on a contest reference matching no row
\* returned the empty list.
C9_Witness ==
    /\ last.op = "Contest.get_submissions"
    /\ last.self = UnknownContest
    /\ db.submissions # << >>
    /\ last.ret = << >>
    /\ last.error = "none"

(***************************************************************************)
(* C10: Dataset.get_submission_results(self, dataset) returns exactly the  *)
(* results whose dataset is the argument; called on A with argument B # A  *)
(* it returns B's results and none of A's.                                 *)
(***************************************************************************)
C10_ArgumentDecides ==
    last.op = "Dataset.get_submission_results" =>
        /\ {RowKey(last.ret[i]) : i \in DOMAIN last.ret} = ResultsAgainst(last.arg)
        /\ last.self # last.arg =>
               \A i \in DOMAIN last.ret : last.ret[i].dataset_id # last.self

\* Receiver and argument differ, both have results, and the argument's are
\* returned.
C10_Witness ==
    /\ last.op = "Dataset.get_submission_results"
    /\ last.self # last.arg
    /\ ResultsAgainst(last.self) # {}
    /\ last.ret # << >>
====
